---- MODULE Spec2Model ----
(***************************************************************************)
(* Model of smac_planner::UnconstrainedSmootherCostFunction                *)
(* (smac_planner/include/smac_planner/smoother_cost_function.hpp): the      *)
(* Evaluate sweep over the interior points of a path, its five cost terms   *)
(* with their gradients, the two caches shared between the terms, and the   *)
(* finite-difference gradient of the cost field.                            *)
(*                                                                         *)
(* Numbers.  A C++ double is modelled as a fixed-point integer: the integer *)
(* n stands for the real n / Scale.  Products and quotients round towards   *)
(* minus infinity.  Path coordinates are drawn from a lattice of spacing    *)
(* 0.1, on which every quantity the code compares with EPSILON is either    *)
(* exactly at the compared value or further than EPSILON from it, so the    *)
(* rounding of the model and the rounding of the doubles take the same      *)
(* branches.  NaN and infinity do not arise on that lattice (no point is    *)
(* the world origin, no valid turning angle is 0), so the isnan / isinf     *)
(* tests of the code are never true and are left out.                       *)
(*                                                                         *)
(* Arithmetic is written as functions (Mul[a, b]) and intermediate results  *)
(* are bound with Let, so that every value is computed once.                *)
(***************************************************************************)
EXTENDS Integers, Sequences, FiniteSets, TLC

VARIABLES
    num_points,        \* constructor argument: _num_params = 2 * num_points
    costmap,           \* the cost field behind _costmap (size, origin, cells)
    junk,              \* the byte a getCost outside the grid happens to read
    parameters,        \* Evaluate's input: x,y pairs, 1-based sequence of 2N
    gradient,          \* Evaluate's output buffer (NULL or a sequence of 2N)
    cost,              \* cost[0]
    ret,               \* Evaluate's return value
    pc,                \* where the evaluator is: "idle", "loop", "done"
    i,                 \* loop index of Evaluate (0-based as in the code)
    cost_raw, grad_x_raw, grad_y_raw,
    mx, my, valid_coords, costmap_cost, ki_m1,
    curvature_params,  \* the CurvatureComputations cache
    cost_params,       \* the CostComputations cache
    steps,             \* history: what each interior iteration of this call added
    prev,              \* history: the result of the previous call on the same input
    reads,             \* history: the cells getCost was asked for in the last step
    raw                \* history: the helper's samples and gradient before normalisation

vars == <<num_points, costmap, junk, parameters, gradient, cost, ret, pc, i,
          cost_raw, grad_x_raw, grad_y_raw, mx, my, valid_coords, costmap_cost,
          ki_m1, curvature_params, cost_params, steps, prev, reads, raw>>

----------------------------------------------------------------------------
(* Fixed-point arithmetic standing for double arithmetic.                  *)

Scale == 1000

\* body with x bound to the value of v
Let(v, Body(_)) == CHOOSE y \in {Body(x) : x \in {v}} : TRUE

Abs[x \in Int] == IF x < 0 THEN -x ELSE x

Max[a \in Int, b \in Int] == IF a >= b THEN a ELSE b

\* a * b / Scale without leaving 32 bits: a is split at the radix point
MulSplit[a \in Int, b \in Int] == (a \div Scale) * b + ((a % Scale) * b) \div Scale

\* the product of two doubles
Mul[a \in Int, b \in Int] == IF Abs[a] >= Abs[b] THEN MulSplit[a, b] ELSE MulSplit[b, a]

\* the quotient of two doubles
Div[a \in Int, b \in Int] == (a * Scale) \div b

SqrtIter[n \in Nat, lo \in Nat, hi \in Nat] ==
    IF lo >= hi THEN lo
    ELSE LET mid == (lo + hi + 1) \div 2
         IN  IF mid * mid <= n THEN SqrtIter[n, mid, hi]
             ELSE SqrtIter[n, lo, mid - 1]

\* the integer square root of a non-negative integer
ISqrt[n \in Nat] == SqrtIter[n, 0, IF n < 46340 THEN n ELSE 46340]

\* std::sqrt of a double
Sqrt[x \in Nat] == ISqrt[x * Scale]

\* hypot(x, y); the operands are scaled down when their squares would not
\* fit in 32 bits
Hypot[x \in Int, y \in Int] ==
    IF Max[Abs[x], Abs[y]] < 30000 THEN ISqrt[x * x + y * y]
    ELSE 16 * ISqrt[(Abs[x] \div 16) * (Abs[x] \div 16)
                    + (Abs[y] \div 16) * (Abs[y] \div 16)]

\* cos at the multiples of pi/12, and those angles
CosKnots == <<1000, 966, 866, 707, 500, 259, 0, -259, -500, -707, -866, -966, -1000>>
AngKnots == <<0, 262, 524, 785, 1047, 1309, 1571, 1833, 2094, 2356, 2618, 2880, 3142>>

\* acos, interpolated linearly between the knots
ACos[c \in Int] ==
    LET k == CHOOSE k \in 1..12 : CosKnots[k] >= c /\ c >= CosKnots[k + 1]
    IN  AngKnots[k] + ((CosKnots[k] - c) * (AngKnots[k + 1] - AngKnots[k]))
                        \div (CosKnots[k] - CosKnots[k + 1])

\* std::cos on [0, pi], interpolated linearly between the knots
Cos[a \in Int] ==
    LET k == CHOOSE k \in 1..12 : AngKnots[k] <= a /\ a <= AngKnots[k + 1]
    IN  CosKnots[k] - ((a - AngKnots[k]) * (CosKnots[k] - CosKnots[k + 1]))
                        \div (AngKnots[k + 1] - AngKnots[k])

\* #define EPSILON 0.0001, held as its inverse: EPSILON is a tenth of the
\* fixed-point unit, so x < EPSILON is x * 10 < 1
EPSILON_INV == 10000
LtEps(x) == x * (EPSILON_INV \div Scale) < 1
GtEps(x) == x * (EPSILON_INV \div Scale) > 1

\* Eigen::Vector2d
V2 == Int \X Int
Vec(x, y) == <<x, y>>
Dot[a \in V2, b \in V2] == Mul[a[1], b[1]] + Mul[a[2], b[2]]
Sub[a \in V2, b \in V2] == <<a[1] - b[1], a[2] - b[2]>>
Neg[a \in V2] == <<-a[1], -a[2]>>
VScale[a \in V2, s \in Int] == <<Mul[a[1], s], Mul[a[2], s]>>
VDiv[a \in V2, s \in Int] == <<Div[a[1], s], Div[a[2], s]>>
Norm[a \in V2] == ISqrt[a[1] * a[1] + a[2] * a[2]]

----------------------------------------------------------------------------
(* The cost field (smac_planner/minimal_costmap.hpp and types.hpp are not   *)
(* part of the sources; they are modelled from the specification).          *)

\* the four named cost values, as doubles
FREE == 0
MAX_NON_OBSTACLE == 252 * Scale
INSCRIBED == 253 * Scale
UNKNOWN == 255 * Scale

\* unsigned int arithmetic; the integers of TLC are themselves 32-bit and
\* signed, so the width is narrower than the program's 32 bits (only 0 - 1
\* and 0 - 2 wrap in the code)
UIntBits == 16
UIntModulus == 2 ^ UIntBits
UAdd[a \in Int, b \in Int] == (a + b) % UIntModulus
USub[a \in Int, b \in Int] == (a - b) % UIntModulus

InGrid(cm, col, row) == col >= 0 /\ col < cm.sizeX /\ row >= 0 /\ row < cm.sizeY

\* MinimalCostmap::getCost: the cell's byte as a double; outside the grid the
\* read leaves the array and yields whatever byte is there
getCost(cm, oob, col, row) ==
    IF InGrid(cm, col, row) THEN cm.cells[<<col, row>>] * Scale ELSE oob * Scale

\* MinimalCostmap::worldToMap: fails for a point outside the map
worldToMap(cm, wx, wy) ==
    IF wx < cm.origin_x \/ wy < cm.origin_y
    THEN [ok |-> FALSE, mx |-> 0, my |-> 0]
    ELSE LET cx == (wx - cm.origin_x) \div cm.resolution
             cy == (wy - cm.origin_y) \div cm.resolution
         IN  IF cx < cm.sizeX /\ cy < cm.sizeY
             THEN [ok |-> TRUE, mx |-> cx, my |-> cy]
             ELSE [ok |-> FALSE, mx |-> 0, my |-> 0]

----------------------------------------------------------------------------
(* The weights set by the constructor.                                      *)

_Wsmooth == 200000 * Scale
_Wcost == Scale \div 5
_Wchange == 1 * Scale
_Wcurve == 2 * Scale
_Wcollision == 1 * Scale
_max_turning_radius == 10 * Scale

----------------------------------------------------------------------------
(* The five terms.  An operator takes the accumulators the C++ function     *)
(* takes by reference and returns their new values.                         *)

addSmoothingResidual(weight, pt, pt_p, pt_m, r) ==
    r + Mul[weight, Dot[pt_p, pt_p] - 4 * Dot[pt_p, pt] + 2 * Dot[pt_p, pt_m]
                    + 4 * Dot[pt, pt] - 4 * Dot[pt, pt_m] + Dot[pt_m, pt_m]]

addSmoothingJacobian(weight, pt, pt_p, pt_m, j) ==
    << j[1] + Mul[weight, -4 * pt_m[1] + 8 * pt[1] - 4 * pt_p[1]],
       j[2] + Mul[weight, -4 * pt_m[2] + 8 * pt[2] - 4 * pt_p[2]] >>

\* delta_xi_norm * delta_xi_p_norm, held at twice the fixed-point precision
\* (the root of the product of the squared norms) so that the projection of
\* two parallel segments is exactly 1, as it is within EPSILON in doubles
NormProduct[a \in V2, b \in V2] ==
    100 * ISqrt[((a[1] * a[1] + a[2] * a[2]) \div 100)
                * ((b[1] * b[1] + b[2] * b[2]) \div 100)]

\* delta_xi.dot(delta_xi_p) / delta_xi_by_xi_p
Projection[a \in V2, b \in V2] ==
    ((a[1] * b[1] + a[2] * b[2]) * Scale) \div NormProduct[a, b]

\* lines 273-275: the projection after the clamp
ClampProjection(projection) ==
    IF LtEps(Abs[Scale - projection]) \/ LtEps(Abs[projection + Scale])
    THEN Scale ELSE projection

\* lines 277-280: the angle, the turning-radius estimate and its excess
TurningEstimate(params, projection) ==
    Let(ACos[projection], LAMBDA delta_phi_i :
    Let(Div[delta_phi_i, params.delta_xi_norm], LAMBDA turning_rad :
        [params EXCEPT !.delta_phi_i = delta_phi_i,
                       !.turning_rad = turning_rad,
                       !.ki_minus_kmax = turning_rad - _max_turning_radius]))

\* lines 258-261: the two segments and their norms
SegmentCache(params, pt, pt_p, pt_m) ==
    Let(Vec(pt[1] - pt_m[1], pt[2] - pt_m[2]), LAMBDA delta_xi :
    Let(Vec(pt_p[1] - pt[1], pt_p[2] - pt[2]), LAMBDA delta_xi_p :
        [params EXCEPT !.delta_xi = delta_xi,
                       !.delta_xi_p = delta_xi_p,
                       !.delta_xi_norm = Norm[delta_xi],
                       !.delta_xi_p_norm = Norm[delta_xi_p]]))

addMaxCurvatureResidual(weight, pt, pt_p, pt_m, params, r) ==
    Let(SegmentCache(params, pt, pt_p, pt_m), LAMBDA p1 :
        IF LtEps(p1.delta_xi_norm) \/ LtEps(p1.delta_xi_p_norm)
        THEN [params |-> [p1 EXCEPT !.valid = FALSE], r |-> r]
        ELSE
          Let(TurningEstimate(p1,
                  ClampProjection(Projection[p1.delta_xi, p1.delta_xi_p])),
              LAMBDA p2 :
                IF ~GtEps(p2.ki_minus_kmax)
                THEN [params |-> [p2 EXCEPT !.valid = FALSE], r |-> r]
                ELSE [params |-> p2,
                      r |-> r + Mul[Mul[weight, p2.ki_minus_kmax],
                                    p2.ki_minus_kmax]]))

normalizedOrthogonalComplement(a, b, a_norm, b_norm) ==
    VDiv[Sub[a, VDiv[VScale[b, Dot[a, b]], Dot[b, b]]], Mul[a_norm, b_norm]]

isValid(params) == params.valid

\* line 325, one component: u * (common_prefix * (-p1 - p2) - common_suffix)
CurvatureJacobianComponent(u, common_prefix, common_suffix, p1k, p2k) ==
    Mul[u, Mul[common_prefix, -p1k - p2k] - common_suffix]

addMaxCurvatureJacobian(weight, pt, pt_p, pt_m, params, j) ==
    IF ~isValid(params) THEN j
    ELSE
      Let(Cos[params.delta_phi_i], LAMBDA cosphi :
      Let(Div[-1 * Scale, Sqrt[Scale - Mul[cosphi, cosphi]]], LAMBDA partial :
      Let(Neg[pt_p], LAMBDA neg_pt_plus :
      Let(normalizedOrthogonalComplement(pt, neg_pt_plus,
              params.delta_xi_norm, params.delta_xi_p_norm), LAMBDA p1 :
      Let(normalizedOrthogonalComplement(neg_pt_plus, pt,
              params.delta_xi_norm, params.delta_xi_p_norm), LAMBDA p2 :
      Let(2 * params.ki_minus_kmax, LAMBDA u :
      Let(Mul[Div[-1 * Scale, params.delta_xi_norm], partial],
          LAMBDA common_prefix :
      Let(Div[params.delta_phi_i,
              Mul[params.delta_xi_norm, params.delta_xi_norm]],
          LAMBDA common_suffix :
        << j[1] + Mul[weight, CurvatureJacobianComponent(u, common_prefix,
                                  common_suffix, p1[1], p2[1])],
           j[2] + Mul[weight, CurvatureJacobianComponent(u, common_prefix,
                                  common_suffix, p1[2], p2[2])] >>))))))))

addTurningRateChangeResidual(weight, ki, ki_m, r) ==
    r + Mul[weight, Mul[ki, ki] + Mul[ki_m, ki_m] - Mul[2 * ki, ki_m]]

addTurningRateChangeJacobian(weight, ki, ki_m, j) ==
    << j[1] + Mul[2 * weight, ki - ki_m], j[2] + Mul[2 * weight, ki - ki_m] >>

\* value * value - 2 * MAX_NON_OBSTACLE * value + MAX_NON_OBSTACLE^2
QuadraticPenalty(value) ==
    Mul[value, value] - Mul[2 * MAX_NON_OBSTACLE, value]
        + Mul[MAX_NON_OBSTACLE, MAX_NON_OBSTACLE]

addCollisionResidual(weight, value, params, r) ==
    IF value < INSCRIBED THEN [params |-> params, r |-> r]
    ELSE Let(Mul[-1 * weight, QuadraticPenalty(value)], LAMBDA c :
             [params |-> [params EXCEPT !.cost = c], r |-> r + c])

addCostResidual(weight, value, params, r) ==
    IF value = FREE \/ value = UNKNOWN THEN r
    ELSE IF params.cost # 0 THEN r + params.cost
    ELSE r + Mul[-1 * weight, QuadraticPenalty(value)]

\* the eight neighbour samples of getCostmapGradient, as its guards and its
\* assignments take them (lines 513-545)
NeighbourSamples(cm, oob, cx, cy) ==
    [ right_one |-> IF cx < cm.sizeX
                    THEN getCost(cm, oob, UAdd[cx, 1], cy) ELSE 0,
      right_two |-> IF UAdd[cx, 1] < cm.sizeX
                    THEN getCost(cm, oob, UAdd[cx, 2], cy) ELSE 0,
      left_one  |-> IF cx > 0
                    THEN getCost(cm, oob, USub[cx, 1], cy) ELSE 0,
      left_two  |-> IF USub[cy, 1] > 0
                    THEN getCost(cm, oob, cx, USub[cy, 2])
                    ELSE IF USub[cx, 1] > 0
                         THEN getCost(cm, oob, USub[cx, 2], cy) ELSE 0,
      up_one    |-> IF cy < cm.sizeY
                    THEN getCost(cm, oob, cx, UAdd[cy, 1]) ELSE 0,
      up_two    |-> IF UAdd[cy, 1] < cm.sizeY
                    THEN getCost(cm, oob, cx, UAdd[cy, 2]) ELSE 0,
      down_one  |-> IF cy > 0
                    THEN getCost(cm, oob, cx, USub[cy, 1]) ELSE 0,
      down_two  |-> 0 ]

\* the cells those getCost calls name
NeighbourReads(cm, cx, cy) ==
    (IF cx < cm.sizeX THEN {<<UAdd[cx, 1], cy>>} ELSE {})
    \cup (IF UAdd[cx, 1] < cm.sizeX THEN {<<UAdd[cx, 2], cy>>} ELSE {})
    \cup (IF cx > 0 THEN {<<USub[cx, 1], cy>>} ELSE {})
    \cup (IF USub[cx, 1] > 0 THEN {<<USub[cx, 2], cy>>} ELSE {})
    \cup (IF cy < cm.sizeY THEN {<<cx, UAdd[cy, 1]>>} ELSE {})
    \cup (IF UAdd[cy, 1] < cm.sizeY THEN {<<cx, UAdd[cy, 2]>>} ELSE {})
    \cup (IF cy > 0 THEN {<<cx, USub[cy, 1]>>} ELSE {})
    \cup (IF USub[cy, 1] > 0 THEN {<<cx, USub[cy, 2]>>} ELSE {})

\* lines 549-550: the gradient before normalisation
RawGradient(s) ==
    << (8 * s.up_one - s.up_two - 8 * s.down_one + s.down_two) \div 12,
       (8 * s.right_one - s.right_two - 8 * s.left_one + s.left_two) \div 12 >>

\* lines 551-555
NormalizeGradient(g) ==
    Let(Hypot[g[1], g[2]], LAMBDA grad_mag :
        IF GtEps(grad_mag) THEN << Div[g[1], grad_mag], Div[g[2], grad_mag] >>
        ELSE g)

getCostmapGradient(cx, cy, params, cm, oob) ==
    Let(NeighbourSamples(cm, oob, cx, cy), LAMBDA s :
    Let(RawGradient(s), LAMBDA rg :
    Let(NormalizeGradient(rg), LAMBDA g :
        [ params |-> [params EXCEPT !.gradx = g[1], !.grady = g[2]],
          reads  |-> NeighbourReads(cm, cx, cy),
          raw    |-> [samples |-> s, grad |-> rg] ])))

\* what a term that does not call the helper hands back
NoHelper(params, j, rw) == [params |-> params, j |-> j, reads |-> {}, raw |-> rw]

\* lines 380-384 and 440-443
FieldGradientStep(weight, value, g, j) ==
    Let(Mul[-2 * weight, value - MAX_NON_OBSTACLE], LAMBDA common_prefix :
        [ params |-> g.params,
          j |-> << j[1] + Mul[common_prefix, g.params.gradx],
                   j[2] + Mul[common_prefix, g.params.grady] >>,
          reads |-> g.reads, raw |-> g.raw ])

addCollisionJacobian(weight, cx, cy, value, params, j, cm, oob, rw) ==
    IF value < INSCRIBED THEN NoHelper(params, j, rw)
    ELSE Let(getCostmapGradient(cx, cy, params, cm, oob), LAMBDA g :
             FieldGradientStep(weight, value, g, j))

addCostJacobian(weight, cx, cy, value, params, j, cm, oob, rw) ==
    IF value = FREE \/ value = UNKNOWN THEN NoHelper(params, j, rw)
    ELSE Let(IF params.gradx = 0 /\ params.grady = 0
             THEN getCostmapGradient(cx, cy, params, cm, oob)
             ELSE [params |-> params, reads |-> {}, raw |-> rw], LAMBDA g :
             FieldGradientStep(weight, value, g, j))

----------------------------------------------------------------------------
(* Bounds of the instances.                                                 *)

\* paths have 3 .. MaxPoints points
MaxPoints == 4

\* the path points: world coordinates on a lattice of spacing 0.1
Lattice == { <<Scale \div 10, Scale \div 10>>,
             <<Scale \div 5,  Scale \div 10>>,
             <<Scale \div 10, Scale \div 5>> }

\* the bytes a cell of the cost field holds
CellValues == {0, 128, 253, 255}

\* the bytes a read outside the cell array can yield
OobValues == {0, 254}

\* what the caller's gradient buffer holds before the call
GarbageValues == {7 * Scale}

\* what the uninitialised doubles of CurvatureComputations hold
UninitValues == {0, 3 * Scale}

\* the cost fields of the Evaluate instances: two cells side by side, cell
\* (0,0) under the lattice point (0.1, 0.1), cell (1,0) under (0.2, 0.1);
\* the lattice point (0.1, 0.2) is outside the map
EvalMaps ==
    { [sizeX |-> 2, sizeY |-> 1, origin_x |-> Scale \div 10,
       origin_y |-> Scale \div 10, resolution |-> Scale \div 10, cells |-> c] :
      c \in [{<<0, 0>>, <<1, 0>>} -> CellValues] }

\* the side of the square cost fields the gradient helper is applied to
GridSize == 5

\* their cells: a plane a*col + b*row + k
Slopes == {0, 1, 7}
Offsets == {3, 40}
GradMaps ==
    { [sizeX |-> GridSize, sizeY |-> GridSize, origin_x |-> 0, origin_y |-> 0,
       resolution |-> Scale \div 10,
       cells |-> [c \in (0..(GridSize - 1)) \X (0..(GridSize - 1)) |->
                     a * c[1] + b * c[2] + k]] :
      a \in Slopes, b \in Slopes, k \in Offsets }

\* the parameter blocks of n points
Paths(n) ==
    { [k \in 1..(2 * n) |-> p[(k + 1) \div 2][2 - (k % 2)]] :
      p \in [1..n -> Lattice] }

----------------------------------------------------------------------------
(* Evaluate.                                                                *)

NULL == <<>>
NoResult == [called |-> FALSE]
NoRaw == [samples |-> [right_one |-> 0, right_two |-> 0, left_one |-> 0,
                       left_two |-> 0, up_one |-> 0, up_two |-> 0,
                       down_one |-> 0, down_two |-> 0],
          grad |-> <<0, 0>>]

\* CurvatureComputations(): only valid is set; the doubles hold what the
\* stack held (the vectors and norms are written before they are read)
NewCurvatureComputations(uninit) ==
    [valid |-> TRUE, delta_xi |-> <<0, 0>>, delta_xi_p |-> <<0, 0>>,
     delta_xi_norm |-> 0, delta_xi_p_norm |-> 0,
     delta_phi_i |-> uninit, turning_rad |-> uninit, ki_minus_kmax |-> uninit]

\* CostComputations: cost{0}, gradx{0}, grady{0}
NewCostComputations == [cost |-> 0, gradx |-> 0, grady |-> 0]

NumParameters == 2 * num_points

\* Eigen::Vector2d(block[2k], block[2k + 1]) for the 0-based point k
Point(block, k) == << block[2 * k + 1], block[2 * k + 2] >>

\* lines 150-151: the two field terms of the cost, and what each added
FieldResidualsBody(value, params, r) ==
    Let(addCollisionResidual(_Wcollision, value, params, r), LAMBDA a :
    Let(addCostResidual(_Wcost, value, a.params, a.r), LAMBDA b :
        [params |-> a.params, r |-> b, collision |-> a.r - r, cost |-> b - a.r]))

\* lines 148-152: the field terms run only where worldToMap succeeded
FieldResiduals(valid, value, params, r) ==
    IF valid THEN FieldResidualsBody(value, params, r)
    ELSE [params |-> params, r |-> r, collision |-> 0, cost |-> 0]

\* lines 163-164: the two field terms of the gradient, and what each added
FieldJacobiansBody(cx, cy, value, params, j, cm, oob, rw) ==
    Let(addCollisionJacobian(_Wcollision, cx, cy, value, params, j, cm, oob, rw),
        LAMBDA a :
    Let(addCostJacobian(_Wcost, cx, cy, value, a.params, a.j, cm, oob, a.raw),
        LAMBDA b :
        [params |-> b.params, j |-> b.j, reads |-> a.reads \cup b.reads,
         raw |-> b.raw,
         collision |-> <<a.j[1] - j[1], a.j[2] - j[2]>>,
         cost |-> <<b.j[1] - a.j[1], b.j[2] - a.j[2]>>]))

\* the gradient block without the test of valid_coords
FieldJacobiansUnchecked(valid, cx, cy, value, params, j, cm, oob, rw) ==
    FieldJacobiansBody(cx, cy, value, params, j, cm, oob, rw)

\* lines 162-165
FieldJacobians(valid, cx, cy, value, params, j, cm, oob, rw) ==
    IF valid THEN FieldJacobiansBody(cx, cy, value, params, j, cm, oob, rw)
    ELSE [params |-> params, j |-> j, reads |-> {}, raw |-> rw,
          collision |-> <<0, 0>>, cost |-> <<0, 0>>]

\* lines 155-160 and 162-165: the gradient block of one interior point
GradientBlock(xi, xi_p1, xi_m1, cparams, w, value, fparams) ==
    Let(addSmoothingJacobian(_Wsmooth, xi, xi_p1, xi_m1,
                             <<grad_x_raw, grad_y_raw>>), LAMBDA j1 :
    Let(addMaxCurvatureJacobian(_Wcurve, xi, xi_p1, xi_m1, cparams, j1),
        LAMBDA j2 :
    Let(addTurningRateChangeJacobian(_Wchange, cparams.turning_rad, ki_m1, j2),
        LAMBDA j3 :
    Let(FieldJacobians(w.ok, w.mx, w.my, value, fparams, j3,
                       costmap, junk, raw), LAMBDA g :
        [ fparams |-> g.params, j |-> g.j, reads |-> g.reads, raw |-> g.raw,
          smooth |-> <<j1[1] - grad_x_raw, j1[2] - grad_y_raw>>,
          curve  |-> <<j2[1] - j1[1], j2[2] - j1[2]>>,
          change |-> <<j3[1] - j2[1], j3[2] - j2[2]>>,
          collision |-> g.collision, cost |-> g.cost ]))))

\* what the gradient block leaves when Evaluate is called without a buffer
NoGradientBlock(fparams) ==
    [ fparams |-> fparams, j |-> <<grad_x_raw, grad_y_raw>>, reads |-> {},
      raw |-> raw, smooth |-> <<0, 0>>, curve |-> <<0, 0>>, change |-> <<0, 0>>,
      collision |-> <<0, 0>>, cost |-> <<0, 0>> ]

\* lines 144-152: the cost block of one interior point
CostBlock(xi, xi_p1, xi_m1) ==
    Let(addSmoothingResidual(_Wsmooth, xi, xi_p1, xi_m1, cost_raw), LAMBDA r1 :
    Let(addMaxCurvatureResidual(_Wcurve, xi, xi_p1, xi_m1,
                                curvature_params, r1), LAMBDA c2 :
    Let(addTurningRateChangeResidual(_Wchange, c2.params.turning_rad,
                                     ki_m1, c2.r), LAMBDA r3 :
    Let(worldToMap(costmap, xi[1], xi[2]), LAMBDA w :
    Let(IF w.ok THEN getCost(costmap, junk, w.mx, w.my) ELSE costmap_cost,
        LAMBDA value :
    Let(FieldResiduals(w.ok, value, cost_params, r3), LAMBDA f :
        [ cparams |-> c2.params, w |-> w, value |-> value,
          fparams |-> f.params, r |-> f.r,
          smooth |-> r1 - cost_raw, curve |-> c2.r - r1, change |-> r3 - c2.r,
          collision |-> f.collision, cost |-> f.cost ]))))))

\* lines 116-130: the locals of Evaluate at loop entry
EnterEvaluate(uninit) ==
    /\ cost' = 0
    /\ cost_raw' = 0
    /\ grad_x_raw' = 0
    /\ grad_y_raw' = 0
    /\ mx' = 0
    /\ my' = 0
    /\ valid_coords' = TRUE
    /\ costmap_cost' = 0
    /\ ki_m1' = 0
    /\ curvature_params' = NewCurvatureComputations(uninit)
    /\ cost_params' = NewCostComputations
    /\ i' = 0
    /\ pc' = "loop"
    /\ ret' = FALSE
    /\ steps' = <<>>
    /\ reads' = {}
    /\ raw' = NoRaw

\* the record of one interior iteration: what it saw and what each term added
StepRecord(cb, gb) ==
    [ i |-> i, has_gradient |-> gradient # NULL,
      valid_coords |-> cb.w.ok, value |-> cb.value,
      valid |-> cb.cparams.valid,
      delta_xi_norm |-> cb.cparams.delta_xi_norm,
      delta_xi_p_norm |-> cb.cparams.delta_xi_p_norm,
      turning_rad |-> cb.cparams.turning_rad,
      ki_minus_kmax |-> cb.cparams.ki_minus_kmax,
      ki_m1 |-> ki_m1,
      r |-> [smooth |-> cb.smooth, curve |-> cb.curve, change |-> cb.change,
             collision |-> cb.collision, cost |-> cb.cost],
      j |-> [smooth |-> gb.smooth, curve |-> gb.curve, change |-> gb.change,
             collision |-> gb.collision, cost |-> gb.cost],
      reads |-> gb.reads ]

\* a caller constructs the evaluator's input and calls Evaluate
Call ==
    /\ pc = "idle"
    /\ \E p \in Paths(num_points) : parameters' = p
    /\ \E g \in {NULL} \cup {[k \in 1..NumParameters |-> v] : v \in GarbageValues} :
          gradient' = g
    /\ \E u \in UninitValues : EnterEvaluate(u)
    /\ UNCHANGED <<num_points, costmap, junk, prev>>

\* lines 132-172: one pass of the loop
Iterate ==
    /\ pc = "loop"
    /\ i # NumParameters \div 2
    /\ i' = i + 1
    /\ IF i < 1 \/ i >= NumParameters \div 2 - 1
       THEN UNCHANGED <<gradient, cost_raw, grad_x_raw, grad_y_raw, mx, my,
                        valid_coords, costmap_cost, ki_m1, curvature_params,
                        cost_params, steps, reads, raw>>
       ELSE \E cb \in {CostBlock(Point(parameters, i), Point(parameters, i + 1),
                                 Point(parameters, i - 1))} :
            \E gb \in {IF gradient # NULL
                       THEN GradientBlock(Point(parameters, i),
                                Point(parameters, i + 1), Point(parameters, i - 1),
                                cb.cparams, cb.w, cb.value, cb.fparams)
                       ELSE NoGradientBlock(cb.fparams)} :
              /\ cost_raw' = cb.r
              /\ curvature_params' = cb.cparams
              /\ valid_coords' = cb.w.ok
              /\ mx' = IF cb.w.ok THEN cb.w.mx ELSE mx
              /\ my' = IF cb.w.ok THEN cb.w.my ELSE my
              /\ costmap_cost' = cb.value
              /\ cost_params' = gb.fparams
              /\ grad_x_raw' = gb.j[1]
              /\ grad_y_raw' = gb.j[2]
              /\ gradient' = IF gradient # NULL
                             THEN [gradient EXCEPT ![2 * i + 1] = gb.j[1],
                                                   ![2 * i + 2] = gb.j[2]]
                             ELSE gradient
              /\ ki_m1' = cb.cparams.turning_rad
              /\ steps' = Append(steps, StepRecord(cb, gb))
              /\ reads' = gb.reads
              /\ raw' = gb.raw
    /\ UNCHANGED <<num_points, costmap, junk, parameters, cost, ret, pc, prev>>

\* lines 175-179
Return ==
    /\ pc = "loop"
    /\ i = NumParameters \div 2
    /\ cost' = cost_raw
    /\ ret' = TRUE
    /\ pc' = "done"
    /\ UNCHANGED <<num_points, costmap, junk, parameters, gradient, i, cost_raw,
                   grad_x_raw, grad_y_raw, mx, my, valid_coords, costmap_cost,
                   ki_m1, curvature_params, cost_params, steps, prev, reads, raw>>

\* the caller evaluates the same input once more, with the same buffer
Recall ==
    /\ pc = "done"
    /\ ~prev.called
    /\ prev' = [called |-> TRUE, cost |-> cost, gradient |-> gradient]
    /\ \E u \in UninitValues : EnterEvaluate(u)
    /\ UNCHANGED <<num_points, costmap, junk, parameters, gradient>>

\* the evaluator after construction
Init ==
    /\ num_points \in 3..MaxPoints
    /\ costmap \in EvalMaps
    /\ junk \in OobValues
    /\ parameters = <<>>
    /\ gradient = NULL
    /\ cost = 0
    /\ ret = FALSE
    /\ pc = "idle"
    /\ i = 0
    /\ cost_raw = 0
    /\ grad_x_raw = 0
    /\ grad_y_raw = 0
    /\ mx = 0
    /\ my = 0
    /\ valid_coords = TRUE
    /\ costmap_cost = 0
    /\ ki_m1 = 0
    /\ curvature_params = NewCurvatureComputations(0)
    /\ cost_params = NewCostComputations
    /\ steps = <<>>
    /\ prev = NoResult
    /\ reads = {}
    /\ raw = NoRaw

Next == Call \/ Iterate \/ Return \/ Recall

Spec == Init /\ [][Next]_vars

----------------------------------------------------------------------------
(* The gradient helper on its own: getCostmapGradient applied to a cell of  *)
(* a square cost field.                                                     *)

GradInit ==
    /\ num_points = 3
    /\ costmap \in GradMaps
    /\ junk \in OobValues
    /\ parameters = <<>>
    /\ gradient = NULL
    /\ cost = 0
    /\ ret = FALSE
    /\ pc = "idle"
    /\ i = 0
    /\ cost_raw = 0
    /\ grad_x_raw = 0
    /\ grad_y_raw = 0
    /\ mx = 0
    /\ my = 0
    /\ valid_coords = TRUE
    /\ costmap_cost = 0
    /\ ki_m1 = 0
    /\ curvature_params = NewCurvatureComputations(0)
    /\ cost_params = NewCostComputations
    /\ steps = <<>>
    /\ prev = NoResult
    /\ reads = {}
    /\ raw = NoRaw

\* getCostmapGradient(mx, my, params) at a cell of the grid
GradientAt ==
    /\ pc = "idle"
    /\ \E cx \in 0..(costmap.sizeX - 1), cy \in 0..(costmap.sizeY - 1) :
         \E g \in {getCostmapGradient(cx, cy, cost_params, costmap, junk)} :
           /\ mx' = cx
           /\ my' = cy
           /\ cost_params' = g.params
           /\ reads' = g.reads
           /\ raw' = g.raw
    /\ pc' = "helper_done"
    /\ UNCHANGED <<num_points, costmap, junk, parameters, gradient, cost, ret, i,
                   cost_raw, grad_x_raw, grad_y_raw, valid_coords, costmap_cost,
                   ki_m1, curvature_params, steps, prev>>

GradNext == GradientAt

GradSpec == GradInit /\ [][GradNext]_vars

\* Evaluate under a scheduler that lets a started call run on
LiveSpec == Init /\ [][Next]_vars /\ WF_vars(Iterate) /\ WF_vars(Return)

----------------------------------------------------------------------------
(* The properties.                                                          *)

\* the five gradient contributions one iteration computed at its own point
OwnGradient(s) ==
    << s.j.smooth[1] + s.j.curve[1] + s.j.change[1] + s.j.collision[1] + s.j.cost[1],
       s.j.smooth[2] + s.j.curve[2] + s.j.change[2] + s.j.collision[2] + s.j.cost[2] >>

\* the five cost contributions one iteration computed
StepCost(s) == s.r.smooth + s.r.curve + s.r.change + s.r.collision + s.r.cost

RECURSIVE CostOfSteps(_)
CostOfSteps(q) == IF q = <<>> THEN 0 ELSE StepCost(Head(q)) + CostOfSteps(Tail(q))

\* the quadratic penalty of the cost-avoidance term at a sampled value
OwnCostPenalty(value) == Mul[-1 * _Wcost, QuadraticPenalty(value)]

\* C1: after a call made with a gradient buffer, the gradient slots of every
\* interior point hold the sum of the five contributions computed at that
\* point only.
C1_GradientOfPointOnly ==
    (pc = "done" /\ gradient # NULL) =>
        \A k \in DOMAIN steps :
            /\ gradient[2 * steps[k].i + 1] = OwnGradient(steps[k])[1]
            /\ gradient[2 * steps[k].i + 2] = OwnGradient(steps[k])[2]

\* C2: after a call made with a gradient buffer, the gradient entries of the
\* two endpoints (indices 0, 1, 2N-2, 2N-1) are zero, whatever the buffer
\* held before.
C2_EndpointGradientZero ==
    (pc = "done" /\ gradient # NULL) =>
        /\ gradient[1] = 0
        /\ gradient[2] = 0
        /\ gradient[NumParameters - 1] = 0
        /\ gradient[NumParameters] = 0

\* C3: two calls with identical inputs return the same cost and the same
\* gradient.
C3_Deterministic ==
    (pc = "done" /\ prev.called) =>
        /\ prev.cost = cost
        /\ prev.gradient = gradient

\* C4: where the sampled value is UNKNOWN, neither the collision term nor
\* the cost-avoidance term adds anything to the cost.
C4_UnknownAddsNothing ==
    \A k \in DOMAIN steps :
        (steps[k].valid_coords /\ steps[k].value = UNKNOWN) =>
            /\ steps[k].r.collision = 0
            /\ steps[k].r.cost = 0

\* C5: where the collision term computed a nonzero penalty in this iteration
\* (value >= INSCRIBED and not UNKNOWN), the cost-avoidance term adds what
\* its own formula -Wcost * (value - MAX_NON_OBSTACLE)^2 gives.
C5_CachedEqualsOwnFormula ==
    \A k \in DOMAIN steps :
        ( /\ steps[k].valid_coords
          /\ steps[k].value >= INSCRIBED
          /\ steps[k].value # UNKNOWN
          /\ steps[k].r.collision # 0 ) =>
            steps[k].r.cost = OwnCostPenalty(steps[k].value)

\* what the three geometry terms add at the interior point of a step
GeometryTermsAccumulated(s) ==
    LET xi == Point(parameters, s.i)
        xi_p1 == Point(parameters, s.i + 1)
        xi_m1 == Point(parameters, s.i - 1)
    IN  /\ s.r.smooth = addSmoothingResidual(_Wsmooth, xi, xi_p1, xi_m1, 0)
        /\ s.r.change = addTurningRateChangeResidual(_Wchange, s.turning_rad,
                                                     s.ki_m1, 0)
        /\ s.r.curve = IF LtEps(s.delta_xi_norm) \/ LtEps(s.delta_xi_p_norm)
                          \/ ~GtEps(s.ki_minus_kmax)
                       THEN 0
                       ELSE Mul[Mul[_Wcurve, s.ki_minus_kmax], s.ki_minus_kmax]
        /\ s.has_gradient =>
             /\ s.j.smooth = addSmoothingJacobian(_Wsmooth, xi, xi_p1, xi_m1, <<0, 0>>)
             /\ s.j.change = addTurningRateChangeJacobian(_Wchange, s.turning_rad,
                                                          s.ki_m1, <<0, 0>>)

\* the state part of C6
C6_SkipsFieldTerms ==
    /\ pc = "loop" => i <= num_points /\ Len(steps) <= i
    /\ pc = "done" => ret = TRUE /\ cost = CostOfSteps(steps)
                      /\ Len(steps) = num_points - 2
    /\ \A k \in DOMAIN steps :
         ~steps[k].valid_coords =>
            /\ steps[k].r.collision = 0
            /\ steps[k].r.cost = 0
            /\ steps[k].j.collision = <<0, 0>>
            /\ steps[k].j.cost = <<0, 0>>
            /\ steps[k].reads = {}
            /\ GeometryTermsAccumulated(steps[k])

\* C6: a started Evaluate completes and returns true; at every interior
\* point whose worldToMap fails, the collision and cost-avoidance terms add
\* nothing to the cost or to the gradient, the cost field is not read, and
\* the three geometry terms are accumulated.
C6_CompletesAndSkipsFieldTerms ==
    /\ [] C6_SkipsFieldTerms
    /\ (pc = "loop") ~> (pc = "done" /\ ret = TRUE)

\* a finished call with a gradient buffer in which a point inside the map,
\* where the cost-avoidance term acted on cost and gradient, is followed by
\* a point outside the map
C6_Witness ==
    /\ pc = "done"
    /\ ret = TRUE
    /\ gradient # NULL
    /\ \E k \in DOMAIN steps, m \in DOMAIN steps :
         /\ m < k
         /\ steps[m].valid_coords
         /\ steps[m].r.cost # 0
         /\ steps[m].j.cost # <<0, 0>>
         /\ ~steps[k].valid_coords
         /\ steps[k].r.smooth # 0

\* C7: at every interior point whose two segments are non-degenerate and
\* whose turning-radius estimate exceeds the maximum by more than EPSILON,
\* the curvature cache is valid, so that the curvature-limit gradient is
\* added, whatever happened at earlier points.
C7_ValidityDecidedAfresh ==
    \A k \in DOMAIN steps :
        ( /\ ~LtEps(steps[k].delta_xi_norm)
          /\ ~LtEps(steps[k].delta_xi_p_norm)
          /\ GtEps(steps[k].ki_minus_kmax) ) =>
            steps[k].valid

\* C8: at an interior point whose sampled value is below INSCRIBED and is
\* neither FREE nor UNKNOWN, the cost-avoidance term adds
\* -Wcost * (value - MAX_NON_OBSTACLE)^2 of that point's own value.
C8_OwnPenaltyBelowInscribed ==
    \A k \in DOMAIN steps :
        ( /\ steps[k].valid_coords
          /\ steps[k].value < INSCRIBED
          /\ steps[k].value # FREE
          /\ steps[k].value # UNKNOWN ) =>
            steps[k].r.cost = OwnCostPenalty(steps[k].value)

\* C9: applied to a cell of the grid, the helper asks getCost only for cells
\* of the grid, and every neighbour sample that falls outside the grid is
\* zero.
C9_ReadsInsideGrid ==
    pc = "helper_done" =>
        /\ \A c \in reads : InGrid(costmap, c[1], c[2])
        /\ mx + 1 >= costmap.sizeX => raw.samples.right_one = 0
        /\ mx + 2 >= costmap.sizeX => raw.samples.right_two = 0
        /\ mx - 1 < 0 => raw.samples.left_one = 0
        /\ mx - 2 < 0 => raw.samples.left_two = 0
        /\ my + 1 >= costmap.sizeY => raw.samples.up_one = 0
        /\ my + 2 >= costmap.sizeY => raw.samples.up_two = 0
        /\ my - 1 < 0 => raw.samples.down_one = 0
        /\ my - 2 < 0 => raw.samples.down_two = 0

\* the five-point stencil along one axis, from the cells c(-2), c(-1), c(+1), c(+2)
Stencil(m2, m1, p1, p2) ==
    (8 * p1 * Scale - p2 * Scale - 8 * m1 * Scale + m2 * Scale) \div 12

\* C10: at a cell whose eight neighbours are inside the grid, the x component
\* of the raw gradient is the stencil over the cells at mx-2, mx-1, mx+1,
\* mx+2 and the y component the stencil over the cells at my-2, my-1, my+1,
\* my+2.
C10_StencilPerAxis ==
    ( /\ pc = "helper_done"
      /\ mx >= 2 /\ mx + 2 < costmap.sizeX
      /\ my >= 2 /\ my + 2 < costmap.sizeY ) =>
        /\ raw.grad[1] = Stencil(costmap.cells[<<mx - 2, my>>],
                                 costmap.cells[<<mx - 1, my>>],
                                 costmap.cells[<<mx + 1, my>>],
                                 costmap.cells[<<mx + 2, my>>])
        /\ raw.grad[2] = Stencil(costmap.cells[<<mx, my - 2>>],
                                 costmap.cells[<<mx, my - 1>>],
                                 costmap.cells[<<mx, my + 1>>],
                                 costmap.cells[<<mx, my + 2>>])

\* C11: at an interior point with two non-degenerate segments, a projection
\* within EPSILON of -1 (the segments reverse direction) is clamped to -1, so
\* that the turning-radius estimate is pi / delta_xi_norm, and a projection
\* within EPSILON of +1 is clamped to +1, so that the estimate is 0.
C11_ClampToNearBound ==
    \A k \in DOMAIN steps :
        ( /\ ~LtEps(steps[k].delta_xi_norm)
          /\ ~LtEps(steps[k].delta_xi_p_norm) ) =>
            LET xi == Point(parameters, steps[k].i)
                projection == Projection[Sub[xi, Point(parameters, steps[k].i - 1)],
                                         Sub[Point(parameters, steps[k].i + 1), xi]]
            IN  /\ LtEps(Abs[projection + Scale]) =>
                     steps[k].turning_rad = Div[ACos[-1 * Scale], steps[k].delta_xi_norm]
                /\ LtEps(Abs[Scale - projection]) =>
                     steps[k].turning_rad = Div[ACos[Scale], steps[k].delta_xi_norm]

====
